---- MODULE Spec2Model ----
(***************************************************************************)
(* Cherry-pick planning for the Echo liquid handler.                       *)
(*                                                                         *)
(* The repository holds two scripts with the same pipeline                  *)
(*   count usage -> wells per building block -> source layout ->           *)
(*   generate_pipetting_pattern -> output                                   *)
(* generateEchoCherrypickFile.py ("gen") and echo_cherrypicking.py         *)
(* ("echo").  They differ in the source layout block of __main__ and in    *)
(* the tail of generate_pipetting_pattern (only "echo" sorts the steps).   *)
(*                                                                         *)
(* Reading of echo_cherrypicking.py __main__: its layout block names the   *)
(* plate geometry n_rows/n_columns and passes dict_targets and             *)
(* transfers_per_well, which are the rows/columns/dict_targets/            *)
(* transfers_per_well of generateEchoCherrypickFile.py; usage is counted   *)
(* in units of one transfer.  The unfinished loop of lines 214-226         *)
(* ("TODO go on here") is not part of the layout algorithm and is left     *)
(* out.                                                                    *)
(*                                                                         *)
(* Strings are sequences of one-character strings, so that Python's        *)
(* substring test, startswith, slicing and int() are computed.  A dict is  *)
(* the sequence of its items in insertion order.                           *)
(***************************************************************************)
EXTENDS Integers, Sequences, FiniteSets, TLC

\* ---------------------------------------------------------------- bounds
\* plate geometry (the scripts use 16 x 24; scaled down)
rows == 3
columns == 1
\* most compounds (demand units) over all target wells
MaxUnits == 2
\* most source wells of a directly given source dict
MaxSourceWells == 2
\* largest transfers_per_well = source_well_volume // transfer_volume of
\* a run of __main__ (the script has 9 // 1)
MaxTransfersPerWell == 2
\* largest transfers_per_source_well of a direct call
MaxLoad == 1

\* ------------------------------------------------------- reagent codes
I1 == <<"I", "1">>
I12 == <<"I", "1", "2">>
M1 == <<"M", "1">>
T1 == <<"T", "1">>
X1 == <<"X", "1">>
\* codes written in the target plate files
Codes == {I1, I12, M1, T1, X1}
\* a direct call of generate_pipetting_pattern: the codes in the source
\* wells, and the compounds asked for ("12" has no building block letter
\* and is a substring of the source code I12)
SourceCodes == {I1, I12, T1}
TargetCodes == {I1, T1, <<"1", "2">>}

building_blocks == <<"I", "M", "T">>

\* ------------------------------------------------------ string helpers
\* ord() of the characters that occur as first letters
CharOrd(c) ==
    CASE c = "I" -> 73
      [] c = "M" -> 77
      [] c = "T" -> 84
      [] c = "X" -> 88
      [] OTHER -> 48

DigitVal(c) ==
    CASE c = "0" -> 0 [] c = "1" -> 1 [] c = "2" -> 2 [] c = "3" -> 3
      [] c = "4" -> 4 [] c = "5" -> 5 [] c = "6" -> 6 [] c = "7" -> 7
      [] c = "8" -> 8 [] c = "9" -> 9

\* int(s) for a string of digits
RECURSIVE ParseInt(_)
ParseInt(s) ==
    IF Len(s) = 0 THEN 0
    ELSE ParseInt(SubSeq(s, 1, Len(s) - 1)) * 10 + DigitVal(s[Len(s)])

\* a in b  (Python substring test)
IsSubstr(a, b) ==
    \E i \in 0..(Len(b) - Len(a)) : SubSeq(b, i + 1, i + Len(a)) = a

\* key.startswith(bb) for a one-letter bb
StartsWith(key, bb) == Len(key) >= 1 /\ key[1] = bb

\* list.sort(key=...) / sorted(..., key=...): stable, ascending.
\* keys[i] is the integer key of s[i].
StableSort(s, keys) ==
    LET rank(i) == 1 + Cardinality({j \in DOMAIN s :
                         keys[j] < keys[i] \/ (keys[j] = keys[i] /\ j < i)})
    IN  [r \in DOMAIN s |-> s[CHOOSE i \in DOMAIN s : rank(i) = r]]

RECURSIVE SumSeq(_)
SumSeq(s) == IF Len(s) = 0 THEN 0 ELSE s[1] + SumSeq(Tail(s))

RECURSIVE Concat(_)
Concat(ss) == IF Len(ss) = 0 THEN <<>> ELSE ss[1] \o Concat(Tail(ss))

Repeat(x, n) == [i \in 1..n |-> x]


\* --------------------------------------------------------------- inputs
\* Target plates as plate_to_dict returns them, flattened in the order the
\* loops "for plate / for well / for compound in val.split(',')" visit
\* them: item i is compound i of well tw of plate tp.  brk[i] tells how
\* compound i+1 follows compound i: 0 same well, 1 next well, 2 next plate.
PlateOf(brk, i) == 1 + Cardinality({j \in 1..(i - 1) : brk[j] = 2})

WellOf(brk, i) ==
    LET starts == {1} \cup {j + 1 : j \in {k \in 1..(i - 1) : brk[k] = 2}}
        start == CHOOSE s \in starts : \A t \in starts : t <= s
    IN  1 + Cardinality({j \in start..(i - 1) : brk[j] = 1})

TargetDicts(C) ==
    UNION { { [i \in 1..n |-> [tp |-> PlateOf(brk, i), tw |-> WellOf(brk, i),
                                compound |-> f[i]]] :
                f \in [1..n -> C], brk \in [1..(n - 1) -> {0, 1, 2}] } :
            n \in 1..MaxUnits }

\* A source dict {plate: {well: code}}: one entry per key, in insertion
\* order.  isdict tells whether the value is a well dict (wells) or a bare
\* string (str) left under a well key (well).
PlateEntry(k, ws) ==
    [isdict |-> TRUE, key |-> k, well |-> <<0, 0>>, wells |-> ws, str |-> <<>>]

StrayEntry(w, code) ==
    [isdict |-> FALSE, key |-> 0, well |-> w, wells |-> <<>>, str |-> code]

\* source dicts given directly to generate_pipetting_pattern: m wells,
\* brk[i] = 1 when well i+1 starts the next plate
SourceDicts(C) ==
    UNION { { LET np == 1 + Cardinality({j \in 1..(m - 1) : brk[j] = 1})
                  plateOf(i) == 1 + Cardinality({j \in 1..(i - 1) : brk[j] = 1})
                  members(p) == SelectSeq([i \in 1..m |-> i],
                                          LAMBDA i : plateOf(i) = p)
              IN  [p \in 1..np |->
                      PlateEntry(p, [j \in 1..Len(members(p)) |->
                          [well |-> <<1, j>>, val |-> g[members(p)[j]]]])] :
                g \in [1..m -> C], brk \in [1..(m - 1) -> {0, 1}] } :
            m \in 1..MaxSourceWells }

\* ---------------------------------------------------------------- state
VARIABLES
    variant,            \* which script runs: "gen" or "echo"
    pc,                 \* position in __main__ / generate_pipetting_pattern
    error,              \* exception that ended the run, "" if none
    dict_targets,       \* target plates (flattened, see TargetDicts)
    transfers_per_well, \* loads of a fresh source well
    counter,            \* usage per building block, <<code, count>> items
    wells_per_BB,       \* wells per building block, <<code, wells>> items
    source,             \* source dict (sequence of entries)
    source_loads,       \* loads left, source_loads[p][w]
    unit,               \* index in dict_targets of the next compound
    pipetting_step_1,   \* transfers <<source plate, source well, target plate, target well>>
    pipetting_step_2,
    stdout,             \* compounds printed as 'ERROR. Encountered unknown compound'
    ret,                \* tuple returned by generate_pipetting_pattern, <<>> before
    trace               \* history: what each pass of the compound loop did

vars == <<variant, pc, error, dict_targets, transfers_per_well, counter,
          wells_per_BB, source, source_loads, unit, pipetting_step_1,
          pipetting_step_2, stdout, ret, trace>>

matchVars == <<source_loads, unit, pipetting_step_1, pipetting_step_2,
               stdout, ret, trace>>

\* ----------------------------------------------------- usage and wells
\* counter[j.strip()] += 1 over all plates, wells and compounds
CountUsage(ts) ==
    LET first(i) == \A j \in 1..(i - 1) : ts[j].compound # ts[i].compound
        firsts == SelectSeq([i \in 1..Len(ts) |-> i], first)
        count(c) == Cardinality({i \in 1..Len(ts) : ts[i].compound = c})
    IN  [k \in 1..Len(firsts) |->
            <<ts[firsts[k]].compound, count(ts[firsts[k]].compound)>>]

\* ceil instead of floor + 1
WellsNeededCeil(val, tpw) == (val + tpw - 1) \div tpw

\* val // transfers_per_well + 1
WellsNeeded(val, tpw) == val \div tpw + 1

\* the category sort first, the number sort last
SortWellsPerBBNumberLast(items) ==
    LET byType == StableSort(items, [i \in DOMAIN items |->
                      CharOrd(SubSeq(items[i][1], 1, 1)[1])])
    IN  StableSort(byType, [i \in DOMAIN byType |->
                      ParseInt(SubSeq(byType[i][1], 2, Len(byType[i][1])))])

\* sorted(key=int(item[0][1:])) and then sorted(key=item[0][:1])
SortWellsPerBB(items) ==
    LET byNumber == StableSort(items, [i \in DOMAIN items |->
                      ParseInt(SubSeq(items[i][1], 2, Len(items[i][1])))])
    IN  StableSort(byNumber, [i \in DOMAIN byNumber |->
                      CharOrd(SubSeq(byNumber[i][1], 1, 1)[1])])

Count ==
    /\ pc = "count"
    /\ counter' = CountUsage(dict_targets)
    /\ pc' = "plan"
    /\ UNCHANGED <<variant, error, dict_targets, transfers_per_well,
                   wells_per_BB, source>>
    /\ UNCHANGED matchVars

Plan ==
    /\ pc = "plan"
    /\ wells_per_BB' = SortWellsPerBB(
           [i \in DOMAIN counter |->
               <<counter[i][1], WellsNeeded(counter[i][2], transfers_per_well)>>])
    /\ pc' = "pack"
    /\ UNCHANGED <<variant, error, dict_targets, transfers_per_well,
                   counter, source>>
    /\ UNCHANGED matchVars

\* ---------------------------------------------------------- source layout
\* string.ascii_uppercase[lo:hi] x range(columns), row by row: the wells
\* of rows lo+1..hi as <<row, column>>
WellGen(lo, hi) ==
    [k \in 1..((hi - lo) * columns) |->
        <<lo + 1 + ((k - 1) \div columns), ((k - 1) % columns) + 1>>]

\* wells['I'], wells['M'], wells['T'] of the single plate
BandWells(k) ==
    CASE k = 1 -> WellGen(0, rows \div 3)
      [] k = 2 -> WellGen(rows \div 3, (2 * rows) \div 3)
      [] k = 3 -> WellGen((2 * rows) \div 3, rows)

\* the wells of a whole plate
PlateWells == WellGen(0, rows)

\* the keys the loop "for key, val in items: if key.startswith(bb):
\* while val > 0" assigns, one per well, in order
Needs(items, bb) ==
    Concat([i \in DOMAIN items |->
               IF StartsWith(items[i][1], bb)
               THEN Repeat(items[i][1], items[i][2]) ELSE <<>>])

Min(a, b) == IF a <= b THEN a ELSE b

\* source[next(wells)] = key until the keys or the wells run out
Place(wells, needs) ==
    [i \in 1..Min(Len(wells), Len(needs)) |-> [well |-> wells[i], val |-> needs[i]]]

\* the try block: bands filled in the order I, M, T; StopIteration at the
\* first band that runs out (ok = FALSE), the wells placed so far stay
SinglePlate(items) ==
    LET fits(k) == Len(Needs(items, building_blocks[k])) <= Len(BandWells(k))
        bad == {k \in 1..3 : ~fits(k)}
        stop == IF bad = {} THEN 3 ELSE CHOOSE k \in bad : \A j \in bad : k <= j
    IN  [ok |-> bad = {},
         placed |-> Concat([k \in 1..3 |->
                       IF k <= stop
                       THEN Place(BandWells(k), Needs(items, building_blocks[k]))
                       ELSE <<>>])]

\* one plate per building block; StopIteration (ok = FALSE) at the first
\* building block that needs more wells than a plate has
Fallback(items) ==
    LET fits(k) == Len(Needs(items, building_blocks[k])) <= Len(PlateWells)
        bad == {k \in 1..3 : ~fits(k)}
        stop == IF bad = {} THEN 3 ELSE CHOOSE k \in bad : \A j \in bad : k <= j
    IN  [ok |-> bad = {},
         plates |-> [k \in 1..stop |->
                       PlateEntry(CharOrd(building_blocks[k]),
                                  Place(PlateWells, Needs(items, building_blocks[k])))]]

\* the flat dict {well: code} of the single-plate attempt
Strays(placed) == [i \in DOMAIN placed |-> StrayEntry(placed[i].well, placed[i].val)]

\* sum(wells_per_bb.values())
SumBB(items) == SumSeq([i \in DOMAIN items |-> items[i][2]])

\* generateEchoCherrypickFile.py: try the single plate, on StopIteration
\* start over with one plate per building block
PackGen ==
    /\ pc = "pack"
    /\ variant = "gen"
    /\ LET sp == SinglePlate(wells_per_BB)
           fb == Fallback(wells_per_BB)
       IN  IF sp.ok
           THEN \* source = {0, source}: a set cannot hold a dict
                /\ source' = Strays(sp.placed)
                /\ pc' = "aborted"
                /\ error' = "TypeError"
           ELSE /\ source' = fb.plates
                /\ pc' = IF fb.ok THEN "call" ELSE "aborted"
                /\ error' = IF fb.ok THEN "" ELSE "StopIteration"
    /\ UNCHANGED <<variant, dict_targets, transfers_per_well, counter, wells_per_BB>>
    /\ UNCHANGED matchVars

\* echo_cherrypicking.py: choose n_sources from the sum, try the single
\* plate, and fill the per-building-block plates into the same dict.
\* (NotImplementedError needs more than 3 * rows * columns wells in all,
\* which MaxUnits compounds do not ask for; the branch is as in the source.)
PackEcho ==
    /\ pc = "pack"
    /\ variant = "echo"
    /\ LET sum_bb == SumBB(wells_per_BB)
           source_n_wells == rows * columns
           sp == SinglePlate(wells_per_BB)
           fb == Fallback(wells_per_BB)
       IN  IF sum_bb > source_n_wells * Len(building_blocks)
           THEN /\ source' = <<>>
                /\ pc' = "aborted"
                /\ error' = "NotImplementedError"
           ELSE IF sum_bb <= source_n_wells /\ sp.ok
           THEN /\ source' = <<PlateEntry(0, sp.placed)>>
                /\ pc' = "call"
                /\ error' = ""
           ELSE /\ source' = (IF sum_bb <= source_n_wells
                              THEN Strays(sp.placed) ELSE <<>>) \o fb.plates
                /\ pc' = IF fb.ok THEN "call" ELSE "aborted"
                /\ error' = IF fb.ok THEN "" ELSE "StopIteration"
    /\ UNCHANGED <<variant, dict_targets, transfers_per_well, counter, wells_per_BB>>
    /\ UNCHANGED matchVars

\* ------------------------------------------- generate_pipetting_pattern
\* source_loads = {i: dict.fromkeys(source_dict[i], transfers_per_source_well)}
InitialLoads(src, tps) ==
    [p \in DOMAIN src |->
        IF src[p].isdict THEN [w \in DOMAIN src[p].wells |-> tps]
        ELSE [w \in DOMAIN src[p].str |-> tps]]

Enter ==
    /\ pc = "call"
    /\ source_loads' = InitialLoads(source, transfers_per_well)
    /\ pipetting_step_1' = <<>>
    /\ pipetting_step_2' = <<>>
    /\ unit' = 1
    /\ pc' = "match"
    /\ UNCHANGED <<variant, error, dict_targets, transfers_per_well, counter,
                   wells_per_BB, source, stdout, ret, trace>>

NoWell == <<0, 0>>

\* the load test "source_loads[...] > 0" dropped
FindWellAnyLoad(src, loads, compound) ==
    LET hits == UNION { { <<p, w>> : w \in {v \in DOMAIN src[p].wells :
                                     IsSubstr(compound, src[p].wells[v].val)} } :
                        p \in {q \in DOMAIN src : src[q].isdict} }
    IN  IF hits = {} THEN <<0, 0>>
        ELSE CHOOSE h \in hits : \A g \in hits :
                 h[1] < g[1] \/ (h[1] = g[1] /\ h[2] <= g[2])

\* the two source loops: the first well, plates in order and wells in
\* order, with "compound in source_well_val" and a load left
FindWell(src, loads, compound) ==
    LET hits == UNION { { <<p, w>> : w \in {v \in DOMAIN src[p].wells :
                                     /\ IsSubstr(compound, src[p].wells[v].val)
                                     /\ loads[p][v] > 0} } :
                        p \in {q \in DOMAIN src : src[q].isdict} }
    IN  IF hits = {} THEN NoWell
        ELSE CHOOSE h \in hits : \A g \in hits :
                 h[1] < g[1] \/ (h[1] = g[1] /\ h[2] <= g[2])

\* source_plate_val.items() on a value that is a string: reached when no
\* well of the plates before it matched
HitsString(src, hit) ==
    \E p \in DOMAIN src : ~src[p].isdict /\ (hit = NoWell \/ p < hit[1])

\* the two tests of the building block exchanged
StepOfSwapped(compound) ==
    IF IsSubstr(<<"T">>, compound) THEN 1
    ELSE IF IsSubstr(<<"I">>, compound) \/ IsSubstr(<<"M">>, compound) THEN 2
    ELSE 0

\* if 'I' in compound or 'M' in compound / elif 'T' in compound / else
StepOf(compound) ==
    IF IsSubstr(<<"I">>, compound) \/ IsSubstr(<<"M">>, compound) THEN 1
    ELSE IF IsSubstr(<<"T">>, compound) THEN 2
    ELSE 0

\* one pass of "for compound in target_well_val.split(',')"
MatchUnit ==
    /\ pc = "match"
    /\ unit <= Len(dict_targets)
    /\ LET u == dict_targets[unit]
           hit == FindWell(source, source_loads, u.compound)
           step == StepOf(u.compound)
           t == <<source[hit[1]].key, source[hit[1]].wells[hit[2]].well, u.tp, u.tw>>
       IN  /\ ~HitsString(source, hit)
           /\ IF hit = NoWell
              THEN UNCHANGED <<source_loads, pipetting_step_1, pipetting_step_2, stdout>>
              ELSE /\ source_loads' = [source_loads EXCEPT ![hit[1]][hit[2]] = @ - 1]
                   /\ pipetting_step_1' = IF step = 1 THEN Append(pipetting_step_1, t)
                                          ELSE pipetting_step_1
                   /\ pipetting_step_2' = IF step = 2 THEN Append(pipetting_step_2, t)
                                          ELSE pipetting_step_2
                   /\ stdout' = IF step = 0 THEN Append(stdout, u.compound) ELSE stdout
           /\ trace' = Append(trace, [unit |-> unit, found |-> hit # NoWell,
                                      hit |-> hit, step |-> step])
    /\ unit' = unit + 1
    /\ UNCHANGED <<variant, pc, error, dict_targets, transfers_per_well, counter,
                   wells_per_BB, source, ret>>

\* AttributeError: 'str' object has no attribute 'items'
MatchCrash ==
    /\ pc = "match"
    /\ unit <= Len(dict_targets)
    /\ HitsString(source, FindWell(source, source_loads, dict_targets[unit].compound))
    /\ pc' = "aborted"
    /\ error' = "AttributeError"
    /\ UNCHANGED <<variant, dict_targets, transfers_per_well, counter,
                   wells_per_BB, source>>
    /\ UNCHANGED matchVars

\* pipetting_step_1.sort(key=x[0]); pipetting_step_1.sort(key=x[2])
SortStep1(step) ==
    LET bySource == StableSort(step, [i \in DOMAIN step |-> step[i][1]])
    IN  StableSort(bySource, [i \in DOMAIN bySource |-> bySource[i][3]])

\* pipetting_step_2.sort(key=x[2])
SortStep2(step) == StableSort(step, [i \in DOMAIN step |-> step[i][3]])

\* the end of generate_pipetting_pattern: echo_cherrypicking.py sorts the
\* steps, generateEchoCherrypickFile.py returns them as matched
Return ==
    /\ pc = "match"
    /\ unit > Len(dict_targets)
    /\ pipetting_step_1' = IF variant = "echo" THEN SortStep1(pipetting_step_1)
                           ELSE pipetting_step_1
    /\ pipetting_step_2' = IF variant = "echo" THEN SortStep2(pipetting_step_2)
                           ELSE pipetting_step_2
    /\ ret' = <<pipetting_step_1', pipetting_step_2'>>
    /\ pc' = "done"
    /\ UNCHANGED <<variant, error, dict_targets, transfers_per_well, counter,
                   wells_per_BB, source, source_loads, unit, stdout, trace>>

\* ------------------------------------------------------- specifications
Blank ==
    /\ error = ""
    /\ counter = <<>>
    /\ wells_per_BB = <<>>
    /\ source_loads = <<>>
    /\ unit = 0
    /\ pipetting_step_1 = <<>>
    /\ pipetting_step_2 = <<>>
    /\ stdout = <<>>
    /\ ret = <<>>
    /\ trace = <<>>

\* a run of __main__ on target plate files
Init ==
    /\ variant \in {"gen", "echo"}
    /\ pc = "count"
    /\ dict_targets \in TargetDicts(Codes)
    /\ transfers_per_well \in 1..MaxTransfersPerWell
    /\ source = <<>>
    /\ Blank

Next == Count \/ Plan \/ PackGen \/ PackEcho \/ Enter \/ MatchUnit \/ MatchCrash \/ Return

Spec == Init /\ [][Next]_vars

\* a call of generate_pipetting_pattern on any source dict and targets
InitMatch ==
    /\ variant \in {"gen", "echo"}
    /\ pc = "call"
    /\ dict_targets \in TargetDicts(TargetCodes)
    /\ source \in SourceDicts(SourceCodes)
    /\ transfers_per_well \in 0..MaxLoad
    /\ Blank

NextMatch == Enter \/ MatchUnit \/ Return

SpecMatch == InitMatch /\ [][NextMatch]_vars

\* ------------------------------------------------------------ properties
\* generate_pipetting_pattern has been entered
Entered == unit >= 1

\* all transfers recorded so far
Steps == pipetting_step_1 \o pipetting_step_2

\* the wells of the source dict as <<plate key, well, code>>
SourceWells ==
    UNION { { <<source[p].key, source[p].wells[w].well, source[p].wells[w].val>> :
                w \in DOMAIN source[p].wells } :
            p \in {q \in DOMAIN source : source[q].isdict} }

\* the codes that occur in source wells
SourceCodesUsed == {sw[3] : sw \in SourceWells}

\* number of transfers drawn from wells that hold code r
DrawnFrom(r) ==
    Cardinality({i \in DOMAIN Steps : <<Steps[i][1], Steps[i][2], r>> \in SourceWells})

\* C1: during generate_pipetting_pattern no SourceLoad counter is negative,
\* and for every code r the transfers drawn from wells holding r number at
\* most transfers_per_source_well times the wells assigned r.
C1_CapacityConservation ==
    Entered =>
        /\ \A p \in DOMAIN source_loads : \A w \in DOMAIN source_loads[p] :
               source_loads[p][w] >= 0
        /\ \A r \in SourceCodesUsed :
               DrawnFrom(r) <= transfers_per_well *
                   Cardinality({sw \in SourceWells : sw[3] = r})

\* a compound found every well of its code used up: the wells holding it
\* gave all their loads and a later compound found none
C1_Witness ==
    /\ Entered
    /\ transfers_per_well >= 1
    /\ \E i \in DOMAIN trace :
          /\ ~trace[i].found
          /\ \E r \in SourceCodesUsed :
                /\ dict_targets[i].compound = r
                /\ DrawnFrom(r) = transfers_per_well *
                       Cardinality({sw \in SourceWells : sw[3] = r})
    /\ \E p \in DOMAIN source_loads : \E w \in DOMAIN source_loads[p] :
          source_loads[p][w] = 0

\* the compounds of a recognized building block (I, M or T)
Recognized(i) == StepOf(dict_targets[i].compound) # 0

\* the diagnostics a caller gets: whatever generate_pipetting_pattern
\* returns after the two step lists
Diagnostics == SubSeq(ret, 3, Len(ret))

Reported(i) ==
    \E k \in DOMAIN Diagnostics :
        Diagnostics[k] = <<dict_targets[i].compound, dict_targets[i].tp, dict_targets[i].tw>>

\* generate_pipetting_pattern was called and is over (returned or raised)
MatcherOver == Entered /\ pc \in {"done", "aborted"}

C2_CompleteWhenReturned ==
    pc = "done" =>
        /\ \A i \in DOMAIN dict_targets : Recognized(i) =>
               i \in DOMAIN trace /\ trace[i].found
        /\ Len(ret[1]) + Len(ret[2]) =
               Cardinality({i \in DOMAIN dict_targets : Recognized(i)})

\* C3: a compound for which no source well with a load left was found is
\* in the diagnostics returned to the caller, and the loop went on over
\* all compounds.
C3_UnmetDemandReported ==
    pc = "done" =>
        /\ Len(trace) = Len(dict_targets)
        /\ \A i \in DOMAIN trace : ~trace[i].found => Reported(i)

\* C4: a compound of no recognized building block gets no transfer, is in
\* the diagnostics returned to the caller, and the loop went on over all
\* compounds.
C4_UnknownReagentReported ==
    pc = "done" =>
        /\ Len(trace) = Len(dict_targets)
        /\ Len(ret[1]) + Len(ret[2]) =
               Cardinality({i \in DOMAIN trace : trace[i].found /\ Recognized(i)})
        /\ \A i \in DOMAIN dict_targets : ~Recognized(i) => Reported(i)

\* the layout block of __main__ is over (source laid out, or raised)
Packed == pc \in {"call", "match", "done", "aborted"}

\* the exceptions the layout block ends a run with
LayoutErrors == {"TypeError", "StopIteration", "NotImplementedError"}

\* wells a building block needs in all
CategoryWells(k) ==
    SumSeq([i \in DOMAIN wells_per_BB |->
               IF StartsWith(wells_per_BB[i][1], building_blocks[k])
               THEN wells_per_BB[i][2] ELSE 0])

\* wells in a building block's rows of the single plate
BandSize(k) ==
    CASE k = 1 -> (rows \div 3) * columns
      [] k = 2 -> (((2 * rows) \div 3) - (rows \div 3)) * columns
      [] k = 3 -> (rows - ((2 * rows) \div 3)) * columns

BandsFit == \A k \in 1..3 : CategoryWells(k) <= BandSize(k)

PlatesFit == \A k \in 1..3 : CategoryWells(k) <= rows * columns

\* C5: if every building block fits its rows of the single plate the
\* layout is one plate; if some rows run out but every building block
\* fits a whole plate, the layout is exactly one plate per building block
\* and holds nothing of the failed single-plate attempt.
C5_LayoutByFeasibility ==
    Packed =>
        /\ BandsFit =>
               /\ error \notin LayoutErrors
               /\ Len(source) = 1
               /\ source[1].isdict
        /\ (~BandsFit /\ PlatesFit) =>
               /\ error \notin LayoutErrors
               /\ Len(source) = Len(building_blocks)
               /\ \A p \in DOMAIN source : source[p].isdict

\* C6: if some building block needs more wells than a whole plate has,
\* the run ends with 'Cannot exceed one source plate per building block'
\* before generate_pipetting_pattern is called.
C6_CapacityExceeded ==
    (Packed /\ ~PlatesFit) =>
        /\ pc = "aborted"
        /\ error = "NotImplementedError"
        /\ ~Entered

\* usage of a code
UsageOf(code) ==
    LET i == CHOOSE j \in DOMAIN counter : counter[j][1] = code
    IN  counter[i][2]

Planned == pc \notin {"count", "plan"}

\* C7 as stated: wells_per_BB[r] = ceil(usage[r] / transfers_per_well), >= 1.
C7_WellsAreCeil ==
    Planned =>
        \A i \in DOMAIN wells_per_BB :
            LET w == wells_per_BB[i][2]
                d == UsageOf(wells_per_BB[i][1])
            IN  /\ w >= 1
                /\ (w - 1) * transfers_per_well < d
                /\ d <= w * transfers_per_well

\* C7 amended: wells_per_BB[r] = floor(usage[r] / transfers_per_well) + 1,
\* which is >= 1, never less than the ceiling, and one more than the
\* ceiling exactly when the usage is a multiple of transfers_per_well.
C7_WellsAreFloorPlusOne ==
    Planned =>
        /\ Len(wells_per_BB) = Len(counter)
        /\ \A i \in DOMAIN wells_per_BB :
            LET w == wells_per_BB[i][2]
                d == UsageOf(wells_per_BB[i][1])
            IN  /\ w >= 1
                /\ (w - 1) * transfers_per_well <= d
                /\ d < w * transfers_per_well

\* wells were computed for a usage that is a multiple of a
\* transfers_per_well above 1
C7_Witness ==
    /\ Planned
    /\ transfers_per_well > 1
    /\ \E i \in DOMAIN wells_per_BB :
          /\ UsageOf(wells_per_BB[i][1]) % transfers_per_well = 0
          /\ wells_per_BB[i][2] = 2

CatKey(code) == CharOrd(code[1])

NumKey(code) == ParseInt(Tail(code))

\* C8 as stated: wells_per_BB is ordered by number, and by building block
\* letter among equal numbers.
C8_OrderedByNumberThenLetter ==
    Planned =>
        \A i, j \in DOMAIN wells_per_BB : i < j =>
            LET a == wells_per_BB[i][1]
                b == wells_per_BB[j][1]
            IN  \/ NumKey(a) < NumKey(b)
                \/ NumKey(a) = NumKey(b) /\ CatKey(a) <= CatKey(b)

\* C8 amended: wells_per_BB holds every counted code once, ordered by
\* building block letter, and by number within one letter.
C8_OrderedByLetterThenNumber ==
    Planned =>
        /\ {wells_per_BB[i][1] : i \in DOMAIN wells_per_BB} =
               {counter[i][1] : i \in DOMAIN counter}
        /\ Len(wells_per_BB) = Len(counter)
        /\ \A i, j \in DOMAIN wells_per_BB : i < j =>
            LET a == wells_per_BB[i][1]
                b == wells_per_BB[j][1]
            IN  \/ CatKey(a) < CatKey(b)
                \/ CatKey(a) = CatKey(b) /\ NumKey(a) <= NumKey(b)

\* two codes were sorted of which the one with the larger number has the
\* smaller letter
C8_Witness ==
    /\ Planned
    /\ \E i, j \in DOMAIN wells_per_BB :
          /\ i < j
          /\ CatKey(wells_per_BB[i][1]) < CatKey(wells_per_BB[j][1])
          /\ NumKey(wells_per_BB[i][1]) > NumKey(wells_per_BB[j][1])

\* the transfer the loop recorded for compound i
TransferOf(i) ==
    <<source[trace[i].hit[1]].key,
      source[trace[i].hit[1]].wells[trace[i].hit[2]].well,
      dict_targets[i].tp, dict_targets[i].tw>>

\* the transfers of one step in the order they were matched
Matched(step) ==
    LET idx == SelectSeq([i \in DOMAIN trace |-> i],
                         LAMBDA i : trace[i].found /\ trace[i].step = step)
    IN  [k \in DOMAIN idx |-> TransferOf(idx[k])]

\* C9: the returned step 1 list is the matched step 1 transfers ordered by
\* target plate and then source plate, the returned step 2 list the
\* matched step 2 transfers ordered by target plate, ties in matching
\* order.
C9_StepsOrdered ==
    pc = "done" =>
        /\ ret[1] = StableSort(Matched(1), [i \in DOMAIN Matched(1) |->
                        Matched(1)[i][3] * 100 + Matched(1)[i][1]])
        /\ ret[2] = StableSort(Matched(2), [i \in DOMAIN Matched(2) |->
                        Matched(2)[i][3]])

\* the same for the function of echo_cherrypicking.py alone
C9_EchoStepsOrdered ==
    (pc = "done" /\ variant = "echo") =>
        /\ ret[1] = StableSort(Matched(1), [i \in DOMAIN Matched(1) |->
                        Matched(1)[i][3] * 100 + Matched(1)[i][1]])
        /\ ret[2] = StableSort(Matched(2), [i \in DOMAIN Matched(2) |->
                        Matched(2)[i][3]])

\* the layout block handed a source dict to generate_pipetting_pattern
Handed == Packed /\ error \notin LayoutErrors

\* rows of building block k on the single plate
BandRows(k) ==
    CASE k = 1 -> 1..(rows \div 3)
      [] k = 2 -> ((rows \div 3) + 1)..((2 * rows) \div 3)
      [] k = 3 -> (((2 * rows) \div 3) + 1)..rows

\* C10: the source dict handed to generate_pipetting_pattern maps every
\* plate to a well dict with one code per well, every code r has
\* wells_per_BB[r] wells in all, the wells of a building block lie in its
\* rows (single plate) or on its plate (one plate per building block), and
\* no plate holds more than rows x columns wells.
C10_SourceAllocation ==
    Handed =>
        /\ \A p \in DOMAIN source : source[p].isdict
        /\ \A p \in DOMAIN source : \A v, w \in DOMAIN source[p].wells :
               v # w => source[p].wells[v].well # source[p].wells[w].well
        /\ \A i \in DOMAIN wells_per_BB :
               Cardinality({sw \in SourceWells : sw[3] = wells_per_BB[i][1]})
                   = wells_per_BB[i][2]
        /\ \A sw \in SourceWells : \E k \in 1..3 :
               /\ StartsWith(sw[3], building_blocks[k])
               /\ IF Len(source) = 1
                  THEN sw[1] = 0 /\ sw[2][1] \in BandRows(k)
                  ELSE sw[1] = CharOrd(building_blocks[k])
        /\ \A p \in DOMAIN source :
               /\ Len(source[p].wells) <= rows * columns
               /\ \A w \in DOMAIN source[p].wells :
                      /\ source[p].wells[w].well[1] \in 1..rows
                      /\ source[p].wells[w].well[2] \in 1..columns

\* the same for the codes of a recognized building block, on a dict
\* without entries of a failed attempt
C10_RecognizedOnly ==
    (Handed /\ \A p \in DOMAIN source : source[p].isdict) =>
        /\ \A i \in DOMAIN wells_per_BB :
               (\E k \in 1..3 : StartsWith(wells_per_BB[i][1], building_blocks[k])) =>
               Cardinality({sw \in SourceWells : sw[3] = wells_per_BB[i][1]})
                   = wells_per_BB[i][2]
        /\ \A sw \in SourceWells : \E k \in 1..3 :
               /\ StartsWith(sw[3], building_blocks[k])
               /\ IF Len(source) = 1
                  THEN sw[1] = 0 /\ sw[2][1] \in BandRows(k)
                  ELSE sw[1] = CharOrd(building_blocks[k])
        /\ \A p \in DOMAIN source : Len(source[p].wells) <= rows * columns

\* how often transfer t stands in list
TimesIn(list, t) == Cardinality({k \in DOMAIN list : list[k] = t})

\* how often transfer t was recorded for a compound whose first letter is
\* one of prefixes
TimesCreated(prefixes, t) ==
    Cardinality({i \in DOMAIN trace :
                    /\ trace[i].found
                    /\ trace[i].step # 0
                    /\ dict_targets[i].compound[1] \in prefixes
                    /\ TransferOf(i) = t})

\* C11: every transfer of the step 1 list was created for a code with
\* prefix I or M, every transfer of the step 2 list for a code with prefix
\* T, and no transfer stands in both lists.
C11_StagePartition ==
    Entered =>
        /\ \A k \in DOMAIN pipetting_step_1 :
               TimesIn(pipetting_step_1, pipetting_step_1[k])
                   = TimesCreated({"I", "M"}, pipetting_step_1[k])
        /\ \A k \in DOMAIN pipetting_step_2 :
               TimesIn(pipetting_step_2, pipetting_step_2[k])
                   = TimesCreated({"T"}, pipetting_step_2[k])
        /\ \A k \in DOMAIN pipetting_step_1 : \A l \in DOMAIN pipetting_step_2 :
               pipetting_step_1[k] # pipetting_step_2[l]
        /\ pc = "done" => ret = <<pipetting_step_1, pipetting_step_2>>

\* a run returned a step 1 list with a transfer of an M code and a step 2
\* list with a transfer of a T code
C11_Witness ==
    /\ pc = "done"
    /\ Len(ret[1]) >= 1
    /\ Len(ret[2]) >= 1
    /\ \E i \in DOMAIN trace : trace[i].found /\ dict_targets[i].compound[1] = "M"
    /\ \E i \in DOMAIN trace : trace[i].found /\ dict_targets[i].compound[1] = "T"

\* the load the well at position h had when compound i was looked up: what
\* source_loads started with less the compounds before i that took from h
LoadBefore(i, h) ==
    transfers_per_well
        - Cardinality({j \in 1..(i - 1) : trace[j].found /\ trace[j].hit = h})

\* the first position, plates in order and wells in order, of a well that
\* holds exactly the code of compound i and had a load left
FirstEqualWell(i) ==
    LET eq == UNION { { <<p, w>> : w \in {v \in DOMAIN source[p].wells :
                                   /\ source[p].wells[v].val = dict_targets[i].compound
                                   /\ LoadBefore(i, <<p, v>>) > 0} } :
                      p \in {q \in DOMAIN source : source[q].isdict} }
    IN  IF eq = {} THEN NoWell
        ELSE CHOOSE h \in eq : \A g \in eq :
                 h[1] < g[1] \/ (h[1] = g[1] /\ h[2] <= g[2])

\* C12: every recorded transfer draws from the first source well, plates
\* in order and wells in order, whose code equals the demanded code and
\* whose load is above 0; a well of another code is never chosen.
C12_FirstEqualCode ==
    Entered =>
        \A i \in DOMAIN trace :
            (trace[i].found /\ trace[i].step # 0) =>
                /\ trace[i].hit = FirstEqualWell(i)
                /\ source[trace[i].hit[1]].wells[trace[i].hit[2]].val
                       = dict_targets[i].compound

\* the positions <<plate, well>> of the source wells that have a load
LoadedWells ==
    UNION { { <<p, w>> : w \in DOMAIN source_loads[p] } : p \in DOMAIN source_loads }

\* number of recorded transfers that draw from the well at position h
RecordedFrom(h) ==
    Cardinality({k \in DOMAIN Steps :
                    /\ Steps[k][1] = source[h[1]].key
                    /\ Steps[k][2] = source[h[1]].wells[h[2]].well})

\* for every source well, what its load has lost is the number of
\* transfers recorded from it
LedgerBalanced ==
    Entered =>
        \A h \in LoadedWells :
            transfers_per_well - source_loads[h[1]][h[2]] = RecordedFrom(h)

\* a step of the matching loop lowers at most one load, by exactly 1, and
\* only when it appends a transfer from that well to one of the two lists
LedgerStep ==
    (pc = "match" /\ pc' = "match") =>
        LET lowered == {h \in LoadedWells :
                           source_loads'[h[1]][h[2]] # source_loads[h[1]][h[2]]}
        IN  /\ Cardinality(lowered) <= 1
            /\ \A h \in lowered :
                   /\ source_loads'[h[1]][h[2]] = source_loads[h[1]][h[2]] - 1
                   /\ \E t \in {<<source[h[1]].key, source[h[1]].wells[h[2]].well,
                                   dict_targets[unit].tp, dict_targets[unit].tw>>} :
                          \/ /\ pipetting_step_1' = Append(pipetting_step_1, t)
                             /\ pipetting_step_2' = pipetting_step_2
                          \/ /\ pipetting_step_2' = Append(pipetting_step_2, t)
                             /\ pipetting_step_1' = pipetting_step_1

\* C13: during matching, transfers_per_source_well less the load of a
\* source well is the number of transfers recorded from it; a load falls
\* by exactly 1 and only in the step that records a transfer from its
\* well, and a demand unit lowers at most one load.
C13_LedgerConservation == [](LedgerBalanced) /\ [][LedgerStep]_vars

====
